---- MODULE Spec2Model ----
(***************************************************************************)
(* Model of internal/fusefrontend/root_node.go (gocryptfs): the RootNode   *)
(* with its open-flag mangling, the write-only-file open workaround under  *)
(* openWriteOnlyLock, the mitigated-corruption report channel and the      *)
(* reserved-name filter with its idle flag.                                *)
(***************************************************************************)
EXTENDS Integers, Sequences, FiniteSets, TLC

VARIABLES
    \* mangleOpenFlags: the flag word passed in, the result, the call's position,
    \* and the result of mangling the result once more
    flags, newFlags, mpc, mangledTwice,
    \* isFiltered: args.PlaintextNames, the IsIdle flag, each caller's position,
    \* path and return value; whether IsIdle was stored by isFiltered since the
    \* idle monitor last set it, and whether the monitor has set it at all
    PlaintextNames, IsIdle, fpc, fpath, fret, storedSinceSet, monitorRan,
    \* reportMitigatedCorruption: the channel (nil or capacity and buffer), each
    \* reporter's position, item and outcome, the consumer's position, the items
    \* the consumer received, the items put on the channel
    MitigatedCorruptions, rpc, ritem, routcome, cpc, received, sent,
    \* the backing file's permission bits
    perm,
    \* openWriteOnlyLock: shared holds per thread, exclusive holder, and the
    \* writer that announced itself and waits for the readers to leave
    rHeld, wHolder, wPending,
    \* Open()/openWriteOnlyFile per thread: position, perms, err, rwFd, woFd
    pc, perms, err, rwFd, woFd,
    \* per call: Fchmod calls made, read-write Openat calls made, lock
    \* operations made, the exit path taken, whether the revert failed
    nFchmod, nOpen2, nLockOps, exitPath, revertFailed,
    \* the thread whose added read bit is still on the file
    relaxedBy,
    \* the permission bits the file started with; per call, the error the
    \* failing system call returned and the Close calls made of woFd
    origPerm, sysErr, nClose,
    \* the process's open descriptors, and the numbers of woFd and rwFd
    openFds, woFdNum, rwFdNum,
    \* decryptSymlinkTarget: the call's position, its argument, the decoded
    \* bytes, the returned string and error, and the calls made of the base64
    \* decoder and of DecryptBlock
    dpc, cData64, cData, dret, derr, nB64, nCipher

mangleVars == <<flags, newFlags, mpc, mangledTwice>>
filterVars == <<PlaintextNames, IsIdle, fpc, fpath, fret, storedSinceSet, monitorRan>>
reportVars == <<MitigatedCorruptions, rpc, ritem, routcome, cpc, received, sent>>
lockVars == <<rHeld, wHolder, wPending>>
callVars == <<pc, perms, err, rwFd, woFd>>
histVars == <<nFchmod, nOpen2, nLockOps, exitPath, revertFailed, relaxedBy>>
fdVars == <<openFds, woFdNum, rwFdNum>>
noteVars == <<origPerm, sysErr, nClose>>
openVars == <<perm, lockVars, callVars, histVars, fdVars, noteVars>>
symlinkVars == <<dpc, cData64, cData, dret, derr, nB64, nCipher>>
vars == <<mangleVars, filterVars, reportVars, openVars, symlinkVars>>
notOpenVars == <<mangleVars, filterVars, reportVars, symlinkVars>>
notMangleVars == <<filterVars, reportVars, openVars, symlinkVars>>
notFilterVars == <<mangleVars, reportVars, openVars, symlinkVars>>
notReportVars == <<mangleVars, filterVars, openVars, symlinkVars>>
notSymlinkVars == <<mangleVars, filterVars, reportVars, openVars>>

(***************************************************************************)
(* Bounds of the model.                                                    *)
(***************************************************************************)
\* Number of threads running Open() concurrently on the same backing file.
NThreads == 2
\* Number of goroutines calling reportMitigatedCorruption concurrently.
NReporters == 2
\* Largest buffer capacity of the MitigatedCorruptions channel (0: unbuffered).
MaxChanCap == 1
\* Number of threads calling isFiltered concurrently.
NFilterers == 2
\* Longest symlink target, in characters, passed to decryptSymlinkTarget.
MaxTargetLen == 4

Thread == 1..NThreads
Reporter == 1..NReporters
Filterer == 1..NFilterers
NoThread == 0

(***************************************************************************)
(* Program constants (linux/amd64 values of the syscall package).          *)
(***************************************************************************)
O_ACCMODE == 3
O_WRONLY == 1
O_RDWR == 2
O_CREAT == 64
O_APPEND == 1024
O_DIRECT == 16384
O_NOFOLLOW == 131072
\* st.Mode file-type bits of a regular file, and the mask fchmod(2) applies.
S_IFREG == 32768
ModePermRange == 4096
\* Owner-read permission bit, 0400.
OwnerRead == 256
ConfDefaultName == "gocryptfs.conf"
DirIVFilename == "gocryptfs.diriv"

(***************************************************************************)
(* Bitwise operators on non-negative integers, as Go's &, |, ^ and &^.     *)
(***************************************************************************)
RECURSIVE BitAnd(_, _)
BitAnd(a, b) ==
    IF a = 0 \/ b = 0 THEN 0
    ELSE ((a % 2) * (b % 2)) + 2 * BitAnd(a \div 2, b \div 2)

RECURSIVE BitOr(_, _)
BitOr(a, b) ==
    IF a = 0 THEN b
    ELSE IF b = 0 THEN a
    ELSE (IF (a % 2) + (b % 2) > 0 THEN 1 ELSE 0) + 2 * BitOr(a \div 2, b \div 2)

RECURSIVE BitXor(_, _)
BitXor(a, b) ==
    IF a = 0 THEN b
    ELSE IF b = 0 THEN a
    ELSE (((a % 2) + (b % 2)) % 2) + 2 * BitXor(a \div 2, b \div 2)

BitAndNot(a, b) == a - BitAnd(a, b)

(***************************************************************************)
(* mangleOpenFlags                                                         *)
(***************************************************************************)
\* WRONLY is left as it is (the conversion forgotten).
ConvertAccModeKeep(f) == f

\* Line 69-71: convert WRONLY to RDWR; Go parses a ^ b | c as (a ^ b) | c.
ConvertAccMode(f) ==
    IF BitAnd(f, O_ACCMODE) = O_WRONLY
    THEN BitOr(BitXor(f, O_WRONLY), O_RDWR)
    ELSE f

\* O_CREAT is not stripped.
StripFlagsKeepCreat(f) == BitAndNot(BitAndNot(f, O_APPEND), O_DIRECT)

\* O_TRUNC (512) is stripped as well.
StripFlagsAlsoTrunc(f) ==
    BitAndNot(BitAndNot(BitAndNot(BitAndNot(f, O_APPEND), O_DIRECT), O_CREAT), 512)

\* Lines 73-81: strip O_APPEND, O_DIRECT and O_CREAT.
StripFlags(f) == BitAndNot(BitAndNot(BitAndNot(f, O_APPEND), O_DIRECT), O_CREAT)

\* Lines 66-85.
mangleOpenFlags(f) == BitOr(StripFlags(ConvertAccMode(f)), O_NOFOLLOW)

\* The flag bits the inputs are built from: the bits mangleOpenFlags looks at,
\* and O_TRUNC (512), O_NONBLOCK (2048) and bit 30, which it does not.
FlagBits ==
    <<O_WRONLY, O_RDWR, O_CREAT, 512, O_APPEND, 2048, O_DIRECT, O_NOFOLLOW,
      1073741824>>

RECURSIVE FlagWordsUpTo(_)
FlagWordsUpTo(n) ==
    IF n = 0 THEN {0}
    ELSE LET rest == FlagWordsUpTo(n - 1)
         IN  rest \cup {w + FlagBits[n] : w \in rest}

\* Every flag word that is a combination of FlagBits.
FlagWords == FlagWordsUpTo(Len(FlagBits))

\* No call in progress: the variables of mangleOpenFlags at rest.
ParkMangle == flags = 0 /\ newFlags = 0 /\ mpc = "again" /\ mangledTwice = 0

InitMangle == flags \in FlagWords /\ newFlags = 0 /\ mpc = "call" /\ mangledTwice = 0

\* Create() or Open() calls mangleOpenFlags(flags).
MangleOpenFlags ==
    /\ mpc = "call"
    /\ newFlags' = mangleOpenFlags(flags)
    /\ mpc' = "done"
    /\ UNCHANGED <<flags, mangledTwice>>
    /\ UNCHANGED notMangleVars

\* mangleOpenFlags is called with flags it has returned.
MangleAgain ==
    /\ mpc = "done"
    /\ mangledTwice' = mangleOpenFlags(newFlags)
    /\ mpc' = "again"
    /\ UNCHANGED <<flags, newFlags>>
    /\ UNCHANGED notMangleVars

(***************************************************************************)
(* isFiltered and the IsIdle flag                                          *)
(***************************************************************************)
FilterPaths == {ConfDefaultName, DirIVFilename, "", "dir/gocryptfs.conf", "file"}

\* The store is lost: the flag keeps its value.
AtomicStoreLost(cur, val) == cur

\* atomic.StoreUint32(&rn.IsIdle, val), line 108.
AtomicStore(cur, val) == val

\* The mode is not looked at.
isFilteredDecideAnyMode(plaintextNames, path) == path = ConfDefaultName

\* Lines 110-121: the decision isFiltered takes after the store.
isFilteredDecide(plaintextNames, path) ==
    IF ~plaintextNames THEN FALSE
    ELSE IF path = ConfDefaultName THEN TRUE
    ELSE FALSE

ParkFilter ==
    /\ PlaintextNames = FALSE
    /\ IsIdle = 0
    /\ fpc = [t \in Filterer |-> "idle"]
    /\ fpath = [t \in Filterer |-> ""]
    /\ fret = [t \in Filterer |-> FALSE]
    /\ storedSinceSet = FALSE
    /\ monitorRan = FALSE

\* NewRootNode: IsIdle is the zero value; args.PlaintextNames is either setting.
InitFilter ==
    /\ PlaintextNames \in BOOLEAN
    /\ IsIdle = 0
    /\ fpc = [t \in Filterer |-> "idle"]
    /\ fpath = [t \in Filterer |-> ""]
    /\ fret = [t \in Filterer |-> FALSE]
    /\ storedSinceSet = FALSE
    /\ monitorRan = FALSE

\* A filesystem operation calls isFiltered(path).
FilterCall(t) ==
    /\ fpc[t] = "idle"
    /\ \E p \in FilterPaths : fpath' = [fpath EXCEPT ![t] = p]
    /\ fpc' = [fpc EXCEPT ![t] = "store"]
    /\ UNCHANGED <<PlaintextNames, IsIdle, fret, storedSinceSet, monitorRan>>
    /\ UNCHANGED notFilterVars

\* Line 108.
FilterStore(t) ==
    /\ fpc[t] = "store"
    /\ IsIdle' = AtomicStore(IsIdle, 0)
    /\ storedSinceSet' = TRUE
    /\ fpc' = [fpc EXCEPT ![t] = "decide"]
    /\ UNCHANGED <<PlaintextNames, fpath, fret, monitorRan>>
    /\ UNCHANGED notFilterVars

\* Lines 110-121.
FilterDecide(t) ==
    /\ fpc[t] = "decide"
    /\ fret' = [fret EXCEPT ![t] = isFilteredDecide(PlaintextNames, fpath[t])]
    /\ fpc' = [fpc EXCEPT ![t] = "ret"]
    /\ UNCHANGED <<PlaintextNames, IsIdle, fpath, storedSinceSet, monitorRan>>
    /\ UNCHANGED notFilterVars

\* The caller takes the result; the thread may call again.
FilterReturn(t) ==
    /\ fpc[t] = "ret"
    /\ fpc' = [fpc EXCEPT ![t] = "idle"]
    /\ UNCHANGED <<PlaintextNames, IsIdle, fpath, fret, storedSinceSet, monitorRan>>
    /\ UNCHANGED notFilterVars

\* Lines 45-46: idleMonitor() sets IsIdle to 1 periodically.
IdleMonitorSet ==
    /\ IsIdle' = 1
    /\ storedSinceSet' = FALSE
    /\ monitorRan' = TRUE
    /\ UNCHANGED <<PlaintextNames, fpc, fpath, fret>>
    /\ UNCHANGED notFilterVars

(***************************************************************************)
(* reportMitigatedCorruption and the MitigatedCorruptions channel          *)
(***************************************************************************)
Items == {"name1", "name2"}

NilChan == [isNil |-> TRUE, cap |-> 0, buf |-> <<>>]
MakeChan(c) == [isNil |-> FALSE, cap |-> c, buf |-> <<>>]

ParkReport ==
    /\ MitigatedCorruptions = NilChan
    /\ rpc = [t \in Reporter |-> "done"]
    /\ ritem = [t \in Reporter |-> ""]
    /\ routcome = [t \in Reporter |-> "none"]
    /\ cpc = "away"
    /\ received = <<>>
    /\ sent = <<>>

\* NewRootNode leaves the channel nil; a consumer (fsck) may have registered
\* one of any capacity before the filesystem serves calls.
InitReport ==
    /\ MitigatedCorruptions \in {NilChan} \cup {MakeChan(c) : c \in 0..MaxChanCap}
    /\ rpc = [t \in Reporter |-> "idle"]
    /\ ritem = [t \in Reporter |-> ""]
    /\ routcome = [t \in Reporter |-> "none"]
    /\ cpc = "away"
    /\ received = <<>>
    /\ sent = <<>>

\* A detection site calls reportMitigatedCorruption(item).
ReportCall(t) ==
    /\ rpc[t] = "idle"
    /\ \E i \in Items : ritem' = [ritem EXCEPT ![t] = i]
    /\ rpc' = [rpc EXCEPT ![t] = "check"]
    /\ UNCHANGED <<MitigatedCorruptions, routcome, cpc, received, sent>>
    /\ UNCHANGED notReportVars

\* Lines 92-94: return at once when no channel is registered.
ReportNilCheck(t) ==
    /\ rpc[t] = "check"
    /\ IF MitigatedCorruptions.isNil
       THEN /\ rpc' = [rpc EXCEPT ![t] = "done"]
            /\ routcome' = [routcome EXCEPT ![t] = "nochan"]
       ELSE /\ rpc' = [rpc EXCEPT ![t] = "select"]
            /\ UNCHANGED routcome
    /\ UNCHANGED <<MitigatedCorruptions, ritem, cpc, received, sent>>
    /\ UNCHANGED notReportVars

\* Line 96, the send case with a free buffer slot and no receiver waiting
\* (a waiting receiver is handed the item directly).
ReportSendBuffered(t) ==
    /\ rpc[t] = "select"
    /\ cpc = "away"
    /\ Len(MitigatedCorruptions.buf) < MitigatedCorruptions.cap
    /\ MitigatedCorruptions' =
         [MitigatedCorruptions EXCEPT !.buf = Append(@, ritem[t])]
    /\ sent' = Append(sent, [by |-> t, item |-> ritem[t]])
    /\ rpc' = [rpc EXCEPT ![t] = "done"]
    /\ routcome' = [routcome EXCEPT ![t] = "sent"]
    /\ UNCHANGED <<ritem, cpc, received>>
    /\ UNCHANGED notReportVars

\* Line 96, the send case with the consumer blocked in its receive.
ReportSendDirect(t) ==
    /\ rpc[t] = "select"
    /\ cpc = "recv"
    /\ received' = Append(received, ritem[t])
    /\ cpc' = "away"
    /\ sent' = Append(sent, [by |-> t, item |-> ritem[t]])
    /\ rpc' = [rpc EXCEPT ![t] = "done"]
    /\ routcome' = [routcome EXCEPT ![t] = "sent"]
    /\ UNCHANGED <<MitigatedCorruptions, ritem>>
    /\ UNCHANGED notReportVars

\* The call that timed out still puts its item into a free buffer slot.
ReportTimeoutLateSend(t) ==
    /\ rpc[t] = "select"
    /\ rpc' = [rpc EXCEPT ![t] = "done"]
    /\ routcome' = [routcome EXCEPT ![t] = "timeout"]
    /\ MitigatedCorruptions' =
         IF Len(MitigatedCorruptions.buf) < MitigatedCorruptions.cap
         THEN [MitigatedCorruptions EXCEPT !.buf = Append(@, ritem[t])]
         ELSE MitigatedCorruptions
    /\ UNCHANGED <<ritem, cpc, received, sent>>
    /\ UNCHANGED notReportVars

\* A blocking send without the timeout case: the call never gives up.
ReportTimeoutNever(t) == FALSE /\ UNCHANGED vars

\* Lines 97-100: the time.After(1 * time.Second) case.
ReportTimeout(t) ==
    /\ rpc[t] = "select"
    /\ rpc' = [rpc EXCEPT ![t] = "done"]
    /\ routcome' = [routcome EXCEPT ![t] = "timeout"]
    /\ UNCHANGED <<MitigatedCorruptions, ritem, cpc, received, sent>>
    /\ UNCHANGED notReportVars

\* The consumer receives a buffered item.
ConsumerTake ==
    /\ ~MitigatedCorruptions.isNil
    /\ cpc = "away"
    /\ MitigatedCorruptions.buf # <<>>
    /\ received' = Append(received, Head(MitigatedCorruptions.buf))
    /\ MitigatedCorruptions' = [MitigatedCorruptions EXCEPT !.buf = Tail(@)]
    /\ UNCHANGED <<rpc, ritem, routcome, cpc, sent>>
    /\ UNCHANGED notReportVars

\* The consumer blocks in a receive on the empty channel.
ConsumerWait ==
    /\ ~MitigatedCorruptions.isNil
    /\ cpc = "away"
    /\ MitigatedCorruptions.buf = <<>>
    /\ cpc' = "recv"
    /\ UNCHANGED <<MitigatedCorruptions, rpc, ritem, routcome, received, sent>>
    /\ UNCHANGED notReportVars

(***************************************************************************)
(* Open() and openWriteOnlyFile under openWriteOnlyLock                    *)
(***************************************************************************)
\* Permission bits the backing file may start with: 0200, 0222, 0600, 0644.
PermSet == {128, 146, 384, 420}

\* Errors a failing system call may return.
Errnos == {"EPERM", "EIO"}

\* st.Mode as Fstat fills it in for a regular file.
StMode(p) == S_IFREG + p

\* The permission bits fchmod(2) leaves on the file: mode & 07777.
FchmodResult(mode) == mode % ModePermRange

\* The 0400 test is missing.
HasOwnerReadNever(m) == FALSE

\* Line 162: perms&0400 != 0.
HasOwnerRead(m) == BitAnd(m, OwnerRead) # 0

\* Line 175: perms|0400.
RelaxedMode(m) == BitOr(m, OwnerRead)

\* The file is set back to the constant 0200 instead of the stat'ed mode.
RevertModeConst(m) == 128

\* Line 181: the mode the deferred Fchmod restores.
RevertMode(m) == m

\* Descriptors 0 to 2 are the standard streams of the process.
FirstFd == 3

\* The descriptor a successful Openat returns: the lowest one not open.
LowestFreeFd ==
    CHOOSE n \in FirstFd..(FirstFd + Cardinality(openFds)) :
        /\ n \notin openFds
        /\ \A k \in FirstFd..(n - 1) : k \in openFds

\* sync.RWMutex: RLock() proceeds unless a writer holds the lock or waits for it.
CanRLock == wHolder = NoThread /\ wPending = NoThread

ParkOpen ==
    /\ perm = 128
    /\ origPerm = perm
    /\ sysErr = [t \in Thread |-> "nil"]
    /\ nClose = [t \in Thread |-> 0]
    /\ openFds = {}
    /\ woFdNum = [t \in Thread |-> 0]
    /\ rwFdNum = [t \in Thread |-> 0]
    /\ rHeld = [t \in Thread |-> 0]
    /\ wHolder = NoThread
    /\ wPending = NoThread
    /\ pc = [t \in Thread |-> "done"]
    /\ perms = [t \in Thread |-> 0]
    /\ err = [t \in Thread |-> "nil"]
    /\ rwFd = [t \in Thread |-> "zero"]
    /\ woFd = [t \in Thread |-> "none"]
    /\ nFchmod = [t \in Thread |-> 0]
    /\ nOpen2 = [t \in Thread |-> 0]
    /\ nLockOps = [t \in Thread |-> 0]
    /\ exitPath = [t \in Thread |-> "none"]
    /\ revertFailed = [t \in Thread |-> FALSE]
    /\ relaxedBy = NoThread

\* NewRootNode: the lock is unlocked; no call is in progress.
InitOpen ==
    /\ perm \in PermSet
    /\ origPerm = perm
    /\ sysErr = [t \in Thread |-> "nil"]
    /\ nClose = [t \in Thread |-> 0]
    /\ openFds = {}
    /\ woFdNum = [t \in Thread |-> 0]
    /\ rwFdNum = [t \in Thread |-> 0]
    /\ rHeld = [t \in Thread |-> 0]
    /\ wHolder = NoThread
    /\ wPending = NoThread
    /\ pc = [t \in Thread |-> "idle"]
    /\ perms = [t \in Thread |-> 0]
    /\ err = [t \in Thread |-> "nil"]
    /\ rwFd = [t \in Thread |-> "zero"]
    /\ woFd = [t \in Thread |-> "none"]
    /\ nFchmod = [t \in Thread |-> 0]
    /\ nOpen2 = [t \in Thread |-> 0]
    /\ nLockOps = [t \in Thread |-> 0]
    /\ exitPath = [t \in Thread |-> "none"]
    /\ revertFailed = [t \in Thread |-> FALSE]
    /\ relaxedBy = NoThread

\* The normal open path takes openWriteOnlyLock in shared mode.
OpenBegin(t) ==
    /\ pc[t] = "idle"
    /\ CanRLock
    /\ rHeld' = [rHeld EXCEPT ![t] = @ + 1]
    /\ pc' = [pc EXCEPT ![t] = "open"]
    /\ UNCHANGED <<perm, wHolder, wPending, perms, err, rwFd, woFd, histVars>>
    /\ UNCHANGED <<fdVars, noteVars>>
    /\ UNCHANGED notOpenVars

\* The normal open path opens the backing file; when that fails for lack of
\* read permission on a write-only request it calls openWriteOnlyFile.
OpenBacking(t) ==
    /\ pc[t] = "open"
    /\ \/ pc' = [pc EXCEPT ![t] = "open_end"]
       \/ pc' = [pc EXCEPT ![t] = "owo_openat"]
    /\ UNCHANGED <<perm, lockVars, perms, err, rwFd, woFd, histVars>>
    /\ UNCHANGED <<fdVars, noteVars>>
    /\ UNCHANGED notOpenVars

\* Lines 149-153: Openat(dirfd, cName, O_WRONLY|O_NOFOLLOW, 0).
OwoOpenat(t) ==
    /\ pc[t] = "owo_openat"
    /\ \/ /\ woFd' = [woFd EXCEPT ![t] = "open"]
          /\ woFdNum' = [woFdNum EXCEPT ![t] = LowestFreeFd]
          /\ openFds' = openFds \cup {LowestFreeFd}
          /\ pc' = [pc EXCEPT ![t] = "owo_fstat"]
          /\ UNCHANGED <<err, exitPath, sysErr>>
       \/ /\ \E e \in Errnos :
                /\ err' = [err EXCEPT ![t] = e]
                /\ sysErr' = [sysErr EXCEPT ![t] = e]
          /\ exitPath' = [exitPath EXCEPT ![t] = "openat"]
          /\ pc' = [pc EXCEPT ![t] = "owo_ret"]
          /\ UNCHANGED <<woFd, woFdNum, openFds>>
    /\ UNCHANGED <<perm, lockVars, perms, rwFd, nFchmod, nOpen2, nLockOps,
                   revertFailed, relaxedBy>>
    /\ UNCHANGED <<origPerm, nClose, rwFdNum>>
    /\ UNCHANGED notOpenVars

\* Lines 154-160: Fstat(woFd, &st); perms := uint32(st.Mode).
OwoFstat(t) ==
    /\ pc[t] = "owo_fstat"
    /\ \/ /\ perms' = [perms EXCEPT ![t] = StMode(perm)]
          /\ pc' = [pc EXCEPT ![t] = "owo_check"]
          /\ UNCHANGED <<err, exitPath, sysErr>>
       \/ /\ \E e \in Errnos :
                /\ err' = [err EXCEPT ![t] = e]
                /\ sysErr' = [sysErr EXCEPT ![t] = e]
          /\ exitPath' = [exitPath EXCEPT ![t] = "fstat"]
          /\ pc' = [pc EXCEPT ![t] = "owo_close"]
          /\ UNCHANGED perms
    /\ UNCHANGED <<perm, lockVars, rwFd, woFd, nFchmod, nOpen2, nLockOps,
                   revertFailed, relaxedBy>>
    /\ UNCHANGED <<origPerm, nClose, fdVars>>
    /\ UNCHANGED notOpenVars

\* Lines 161-166: verify that the file has no read permission.
OwoCheck(t) ==
    /\ pc[t] = "owo_check"
    /\ IF HasOwnerRead(perms[t])
       THEN /\ err' = [err EXCEPT ![t] = "EPERM"]
            /\ exitPath' = [exitPath EXCEPT ![t] = "eperm"]
            /\ pc' = [pc EXCEPT ![t] = "owo_close"]
       ELSE /\ pc' = [pc EXCEPT ![t] = "owo_runlock"]
            /\ UNCHANGED <<err, exitPath>>
    /\ UNCHANGED <<perm, lockVars, perms, rwFd, woFd, nFchmod, nOpen2, nLockOps,
                   revertFailed, relaxedBy>>
    /\ UNCHANGED <<fdVars, noteVars>>
    /\ UNCHANGED notOpenVars

\* The shared hold is kept (RUnlock forgotten).
OwoRUnlockKeep(t) ==
    /\ pc[t] = "owo_runlock"
    /\ pc' = [pc EXCEPT ![t] = "owo_lock"]
    /\ UNCHANGED <<perm, lockVars, perms, err, rwFd, woFd, histVars>>
    /\ UNCHANGED <<fdVars, noteVars>>
    /\ UNCHANGED notOpenVars

\* Lock() is forgotten: the permissions are relaxed with no lock held.
OwoRUnlockNoLock(t) ==
    /\ pc[t] = "owo_runlock"
    /\ rHeld' = [rHeld EXCEPT ![t] = @ - 1]
    /\ pc' = [pc EXCEPT ![t] = "owo_relax"]
    /\ UNCHANGED <<perm, wHolder, wPending, perms, err, rwFd, woFd, histVars>>
    /\ UNCHANGED <<fdVars, noteVars>>
    /\ UNCHANGED notOpenVars

\* Line 168: rn.openWriteOnlyLock.RUnlock().
OwoRUnlock(t) ==
    /\ pc[t] = "owo_runlock"
    /\ rHeld' = [rHeld EXCEPT ![t] = @ - 1]
    /\ nLockOps' = [nLockOps EXCEPT ![t] = @ + 1]
    /\ pc' = [pc EXCEPT ![t] = "owo_lock"]
    /\ UNCHANGED <<perm, wHolder, wPending, perms, err, rwFd, woFd, nFchmod,
                   nOpen2, exitPath, revertFailed, relaxedBy>>
    /\ UNCHANGED <<fdVars, noteVars>>
    /\ UNCHANGED notOpenVars

\* Line 169, Lock() entered: the writer announces itself; from now on RLock()
\* of other threads blocks.
OwoLockAnnounce(t) ==
    /\ pc[t] = "owo_lock"
    /\ wHolder = NoThread
    /\ wPending = NoThread
    /\ wPending' = t
    /\ pc' = [pc EXCEPT ![t] = "owo_lockwait"]
    /\ UNCHANGED <<perm, rHeld, wHolder, perms, err, rwFd, woFd, histVars>>
    /\ UNCHANGED <<fdVars, noteVars>>
    /\ UNCHANGED notOpenVars

\* Line 169, Lock() returns: every shared hold has been released.
OwoLockAcquire(t) ==
    /\ pc[t] = "owo_lockwait"
    /\ wPending = t
    /\ \A u \in Thread : rHeld[u] = 0
    /\ wHolder' = t
    /\ wPending' = NoThread
    /\ nLockOps' = [nLockOps EXCEPT ![t] = @ + 1]
    /\ pc' = [pc EXCEPT ![t] = "owo_relax"]
    /\ UNCHANGED <<perm, rHeld, perms, err, rwFd, woFd, nFchmod, nOpen2,
                   exitPath, revertFailed, relaxedBy>>
    /\ UNCHANGED <<fdVars, noteVars>>
    /\ UNCHANGED notOpenVars

\* Variant of OwoRelax in which the reverting Fchmod is deferred before the
\* error check, so that it also runs after a failed relaxation.
OwoRelaxRevertAlways(t) ==
    /\ pc[t] = "owo_relax"
    /\ nFchmod' = [nFchmod EXCEPT ![t] = @ + 1]
    /\ \/ /\ perm' = FchmodResult(RelaxedMode(perms[t]))
          /\ relaxedBy' = t
          /\ pc' = [pc EXCEPT ![t] = "owo_open2"]
          /\ UNCHANGED <<err, exitPath, sysErr>>
       \/ /\ \E e \in Errnos :
                /\ err' = [err EXCEPT ![t] = e]
                /\ sysErr' = [sysErr EXCEPT ![t] = e]
          /\ exitPath' = [exitPath EXCEPT ![t] = "relax"]
          /\ pc' = [pc EXCEPT ![t] = "owo_revert"]
          /\ UNCHANGED <<perm, relaxedBy>>
    /\ UNCHANGED <<lockVars, perms, rwFd, woFd, nOpen2, nLockOps, revertFailed>>
    /\ UNCHANGED <<origPerm, nClose, fdVars>>
    /\ UNCHANGED notOpenVars

\* Lines 175-179: Fchmod(woFd, perms|0400).
OwoRelax(t) ==
    /\ pc[t] = "owo_relax"
    /\ nFchmod' = [nFchmod EXCEPT ![t] = @ + 1]
    /\ \/ /\ perm' = FchmodResult(RelaxedMode(perms[t]))
          /\ relaxedBy' = t
          /\ pc' = [pc EXCEPT ![t] = "owo_open2"]
          /\ UNCHANGED <<err, exitPath, sysErr>>
       \/ /\ \E e \in Errnos :
                /\ err' = [err EXCEPT ![t] = e]
                /\ sysErr' = [sysErr EXCEPT ![t] = e]
          /\ exitPath' = [exitPath EXCEPT ![t] = "relax"]
          /\ pc' = [pc EXCEPT ![t] = "owo_unlock"]
          /\ UNCHANGED <<perm, relaxedBy>>
    /\ UNCHANGED <<lockVars, perms, rwFd, woFd, nOpen2, nLockOps, revertFailed>>
    /\ UNCHANGED <<origPerm, nClose, fdVars>>
    /\ UNCHANGED notOpenVars

\* Line 186: return syscallcompat.Openat(dirfd, cName, newFlags, 0).
OwoOpen2(t) ==
    /\ pc[t] = "owo_open2"
    /\ nOpen2' = [nOpen2 EXCEPT ![t] = @ + 1]
    /\ \/ /\ rwFd' = [rwFd EXCEPT ![t] = "rw"]
          /\ rwFdNum' = [rwFdNum EXCEPT ![t] = LowestFreeFd]
          /\ openFds' = openFds \cup {LowestFreeFd}
          /\ exitPath' = [exitPath EXCEPT ![t] = "ok"]
          /\ UNCHANGED <<err, sysErr>>
       \/ /\ rwFd' = [rwFd EXCEPT ![t] = "invalid"]
          /\ rwFdNum' = [rwFdNum EXCEPT ![t] = -1]
          /\ \E e \in Errnos :
                /\ err' = [err EXCEPT ![t] = e]
                /\ sysErr' = [sysErr EXCEPT ![t] = e]
          /\ exitPath' = [exitPath EXCEPT ![t] = "open2"]
          /\ UNCHANGED openFds
    /\ pc' = [pc EXCEPT ![t] = "owo_revert"]
    /\ UNCHANGED <<perm, lockVars, perms, woFd, nFchmod, nLockOps,
                   revertFailed, relaxedBy>>
    /\ UNCHANGED <<origPerm, nClose, woFdNum>>
    /\ UNCHANGED notOpenVars

\* Variant of OwoRevert in which the reverting Fchmod is never made.
OwoRevertSkip(t) ==
    /\ pc[t] = "owo_revert"
    /\ pc' = [pc EXCEPT ![t] = "owo_unlock"]
    /\ UNCHANGED <<perm, lockVars, perms, err, rwFd, woFd, histVars>>
    /\ UNCHANGED <<fdVars, noteVars>>
    /\ UNCHANGED notOpenVars

\* Lines 180-185, deferred: Fchmod(woFd, perms); a failure is only logged.
OwoRevert(t) ==
    /\ pc[t] = "owo_revert"
    /\ nFchmod' = [nFchmod EXCEPT ![t] = @ + 1]
    /\ \/ /\ perm' = FchmodResult(RevertMode(perms[t]))
          /\ relaxedBy' = NoThread
          /\ UNCHANGED revertFailed
       \/ /\ revertFailed' = [revertFailed EXCEPT ![t] = TRUE]
          /\ UNCHANGED <<perm, relaxedBy>>
    /\ pc' = [pc EXCEPT ![t] = "owo_unlock"]
    /\ UNCHANGED <<lockVars, perms, err, rwFd, woFd, nOpen2, nLockOps, exitPath>>
    /\ UNCHANGED <<fdVars, noteVars>>
    /\ UNCHANGED notOpenVars

\* Variant of OwoUnlock in which the exclusive hold is not released.
OwoUnlockSkip(t) ==
    /\ pc[t] = "owo_unlock"
    /\ nLockOps' = [nLockOps EXCEPT ![t] = @ + 1]
    /\ pc' = [pc EXCEPT ![t] = "owo_rlock"]
    /\ UNCHANGED <<perm, lockVars, perms, err, rwFd, woFd, nFchmod,
                   nOpen2, exitPath, revertFailed, relaxedBy>>
    /\ UNCHANGED <<fdVars, noteVars>>
    /\ UNCHANGED notOpenVars

\* Line 171, deferred: rn.openWriteOnlyLock.Unlock().
OwoUnlock(t) ==
    /\ pc[t] = "owo_unlock"
    /\ wHolder' = NoThread
    /\ nLockOps' = [nLockOps EXCEPT ![t] = @ + 1]
    /\ pc' = [pc EXCEPT ![t] = "owo_rlock"]
    /\ UNCHANGED <<perm, rHeld, wPending, perms, err, rwFd, woFd, nFchmod,
                   nOpen2, exitPath, revertFailed, relaxedBy>>
    /\ UNCHANGED <<fdVars, noteVars>>
    /\ UNCHANGED notOpenVars

\* The shared hold is not taken again.
OwoRLockSkip(t) ==
    /\ pc[t] = "owo_rlock"
    /\ pc' = [pc EXCEPT ![t] = "owo_close"]
    /\ UNCHANGED <<perm, lockVars, perms, err, rwFd, woFd, histVars>>
    /\ UNCHANGED <<fdVars, noteVars>>
    /\ UNCHANGED notOpenVars

\* Line 172, deferred: rn.openWriteOnlyLock.RLock().
OwoRLock(t) ==
    /\ pc[t] = "owo_rlock"
    /\ CanRLock
    /\ rHeld' = [rHeld EXCEPT ![t] = @ + 1]
    /\ nLockOps' = [nLockOps EXCEPT ![t] = @ + 1]
    /\ pc' = [pc EXCEPT ![t] = "owo_close"]
    /\ UNCHANGED <<perm, wHolder, wPending, perms, err, rwFd, woFd, nFchmod,
                   nOpen2, exitPath, revertFailed, relaxedBy>>
    /\ UNCHANGED <<fdVars, noteVars>>
    /\ UNCHANGED notOpenVars

\* Variant of OwoClose in which woFd is left open.
OwoCloseSkip(t) ==
    /\ pc[t] = "owo_close"
    /\ pc' = [pc EXCEPT ![t] = "owo_ret"]
    /\ UNCHANGED <<perm, lockVars, perms, err, rwFd, woFd, histVars>>
    /\ UNCHANGED <<fdVars, noteVars>>
    /\ UNCHANGED notOpenVars

\* Line 153, deferred: syscall.Close(woFd).
OwoClose(t) ==
    /\ pc[t] = "owo_close"
    /\ woFd' = [woFd EXCEPT ![t] = "closed"]
    /\ openFds' = openFds \ {woFdNum[t]}
    /\ nClose' = [nClose EXCEPT ![t] = @ + 1]
    /\ pc' = [pc EXCEPT ![t] = "owo_ret"]
    /\ UNCHANGED <<perm, lockVars, perms, err, rwFd, histVars>>
    /\ UNCHANGED <<origPerm, sysErr, woFdNum, rwFdNum>>
    /\ UNCHANGED notOpenVars

\* openWriteOnlyFile has returned (rwFd, err) to the open path.
OwoReturn(t) ==
    /\ pc[t] = "owo_ret"
    /\ pc' = [pc EXCEPT ![t] = "open_end"]
    /\ UNCHANGED <<perm, lockVars, perms, err, rwFd, woFd, histVars>>
    /\ UNCHANGED <<fdVars, noteVars>>
    /\ UNCHANGED notOpenVars

\* The normal open path releases its shared hold when it ends.
OpenEnd(t) ==
    /\ pc[t] = "open_end"
    /\ rHeld' = [rHeld EXCEPT ![t] = @ - 1]
    /\ pc' = [pc EXCEPT ![t] = "done"]
    /\ UNCHANGED <<perm, wHolder, wPending, perms, err, rwFd, woFd, histVars>>
    /\ UNCHANGED <<fdVars, noteVars>>
    /\ UNCHANGED notOpenVars

(***************************************************************************)
(* decryptSymlinkTarget                                                    *)
(*                                                                         *)
(* Strings and byte slices are sequences.  The name transformer's base64   *)
(* decoder and the content encryption's DecryptBlock are other packages of *)
(* the repository; they are modelled in small: an encoding of two bits per *)
(* character, two characters per 4-bit byte, and a block that is a payload *)
(* followed by one authentication byte.                                    *)
(***************************************************************************)
\* Characters of the encoding alphabet, and one character outside it.
B64Digits == 0..3
B64BadChar == 9
ByteRange == 16
\* The key DecryptBlock authenticates and decrypts with.
BlockKey == 5

RECURSIVE B64DecodeFrom(_, _)
B64DecodeFrom(str, i) ==
    IF i > Len(str) THEN [data |-> <<>>, err |-> "nil"]
    ELSE IF str[i] \notin B64Digits THEN [data |-> <<>>, err |-> "base64"]
    ELSE IF i = Len(str) THEN [data |-> <<>>, err |-> "base64"]
    ELSE IF str[i + 1] \notin B64Digits THEN [data |-> <<>>, err |-> "base64"]
    ELSE LET rest == B64DecodeFrom(str, i + 2)
         IN  [data |-> <<(4 * str[i]) + str[i + 1]>> \o rest.data,
              err |-> rest.err]

\* nameTransform.B64DecodeString: the decoded bytes up to the first
\* character that does not decode, and whether all of the string decoded.
B64DecodeString(str) == B64DecodeFrom(str, 1)

RECURSIVE SumBytes(_)
SumBytes(b) == IF b = <<>> THEN 0 ELSE Head(b) + SumBytes(Tail(b))

\* contentEnc.DecryptBlock(ciphertext, 0, nil): the empty block decrypts to
\* the empty plaintext without the cipher; any other block is authenticated
\* and yields plaintext only when authentic.
DecryptBlock(c) ==
    IF c = <<>> THEN [data |-> <<>>, err |-> "nil"]
    ELSE LET payload == SubSeq(c, 1, Len(c) - 1)
         IN  IF c[Len(c)] = (SumBytes(payload) + BlockKey) % ByteRange
             THEN [data |-> [i \in 1..Len(payload) |->
                                (payload[i] + BlockKey) % ByteRange],
                   err |-> "nil"]
             ELSE [data |-> <<>>, err |-> "auth"]

RECURSIVE TargetsUpTo(_)
TargetsUpTo(n) ==
    IF n = 0 THEN {<<>>}
    ELSE LET shorter == TargetsUpTo(n - 1)
         IN  shorter \cup
             {Append(w, ch) : w \in {x \in shorter : Len(x) = n - 1},
                              ch \in B64Digits \cup {B64BadChar}}

\* The symlink targets read from disk that the calls are made with.
Targets == TargetsUpTo(MaxTargetLen)

ParkSymlink ==
    /\ dpc = "ret"
    /\ cData64 = <<>>
    /\ cData = <<>>
    /\ dret = <<>>
    /\ derr = "nil"
    /\ nB64 = 0
    /\ nCipher = 0

\* Readlink calls decryptSymlinkTarget(cData64).
InitSymlink ==
    /\ dpc = "check"
    /\ cData64 \in Targets
    /\ cData = <<>>
    /\ dret = <<>>
    /\ derr = "nil"
    /\ nB64 = 0
    /\ nCipher = 0

\* The empty string is not special: it is decoded like any other.
DstEmptyCheckMissing ==
    /\ dpc = "check"
    /\ dpc' = "decode"
    /\ UNCHANGED <<cData64, cData, dret, derr, nB64, nCipher>>
    /\ UNCHANGED notSymlinkVars

\* Lines 130-132: the empty string decrypts to the empty string.
DstEmptyCheck ==
    /\ dpc = "check"
    /\ IF cData64 = <<>>
       THEN /\ dret' = <<>>
            /\ derr' = "nil"
            /\ dpc' = "ret"
       ELSE /\ dpc' = "decode"
            /\ UNCHANGED <<dret, derr>>
    /\ UNCHANGED <<cData64, cData, nB64, nCipher>>
    /\ UNCHANGED notSymlinkVars

\* The decoder's error is ignored and what it decoded is decrypted.
DstDecodeIgnoreErr ==
    /\ dpc = "decode"
    /\ nB64' = nB64 + 1
    /\ cData' = B64DecodeString(cData64).data
    /\ dpc' = "decrypt"
    /\ UNCHANGED <<cData64, dret, derr, nCipher>>
    /\ UNCHANGED notSymlinkVars

\* Lines 133-136: cData, err := rn.nameTransform.B64DecodeString(cData64).
DstDecode ==
    /\ dpc = "decode"
    /\ nB64' = nB64 + 1
    /\ LET r == B64DecodeString(cData64)
       IN  IF r.err # "nil"
           THEN /\ dret' = <<>>
                /\ derr' = r.err
                /\ dpc' = "ret"
                /\ UNCHANGED cData
           ELSE /\ cData' = r.data
                /\ dpc' = "decrypt"
                /\ UNCHANGED <<dret, derr>>
    /\ UNCHANGED <<cData64, nCipher>>
    /\ UNCHANGED notSymlinkVars

\* Lines 137-141: data, err := rn.contentEnc.DecryptBlock([]byte(cData), 0, nil).
DstDecrypt ==
    /\ dpc = "decrypt"
    /\ nCipher' = nCipher + 1
    /\ LET r == DecryptBlock(cData)
       IN  IF r.err # "nil"
           THEN /\ dret' = <<>>
                /\ derr' = r.err
           ELSE /\ dret' = r.data
                /\ derr' = "nil"
    /\ dpc' = "ret"
    /\ UNCHANGED <<cData64, cData, nB64>>
    /\ UNCHANGED notSymlinkVars

(***************************************************************************)
(* Specifications                                                          *)
(***************************************************************************)
Init == InitOpen /\ ParkMangle /\ ParkFilter /\ ParkReport /\ ParkSymlink

\* The next step of thread t's open, whichever it is.
ThreadStep(t) ==
    \/ OpenBegin(t)
    \/ OpenBacking(t)
    \/ OwoOpenat(t)
    \/ OwoFstat(t)
    \/ OwoCheck(t)
    \/ OwoRUnlock(t)
    \/ OwoLockAnnounce(t)
    \/ OwoLockAcquire(t)
    \/ OwoRelax(t)
    \/ OwoOpen2(t)
    \/ OwoRevert(t)
    \/ OwoUnlock(t)
    \/ OwoRLock(t)
    \/ OwoClose(t)
    \/ OwoReturn(t)
    \/ OpenEnd(t)

Next == \E t \in Thread : ThreadStep(t)

Spec == Init /\ [][Next]_vars

\* The scheduler runs every thread that can take a step: a system call
\* returns, and a lock operation returns once the lock admits it.
OpenFairness == \A t \in Thread : WF_vars(ThreadStep(t))

FairSpec == Spec /\ OpenFairness

MangleInit == InitMangle /\ ParkOpen /\ ParkFilter /\ ParkReport /\ ParkSymlink

MangleNext ==
    \/ MangleOpenFlags
    \/ MangleAgain

SpecMangle == MangleInit /\ [][MangleNext]_vars

FilterInit == InitFilter /\ ParkOpen /\ ParkMangle /\ ParkReport /\ ParkSymlink

FilterNext ==
    \/ \E t \in Filterer :
        \/ FilterCall(t)
        \/ FilterStore(t)
        \/ FilterDecide(t)
        \/ FilterReturn(t)
    \/ IdleMonitorSet

SpecFilter == FilterInit /\ [][FilterNext]_vars

ReportInit == InitReport /\ ParkOpen /\ ParkMangle /\ ParkFilter /\ ParkSymlink

ReportNext ==
    \/ \E t \in Reporter :
        \/ ReportCall(t)
        \/ ReportNilCheck(t)
        \/ ReportSendBuffered(t)
        \/ ReportSendDirect(t)
        \/ ReportTimeout(t)
    \/ ConsumerTake
    \/ ConsumerWait

SymlinkInit == InitSymlink /\ ParkOpen /\ ParkMangle /\ ParkFilter /\ ParkReport

SymlinkNext ==
    \/ DstEmptyCheck
    \/ DstDecode
    \/ DstDecrypt

SpecSymlink == SymlinkInit /\ [][SymlinkNext]_vars

SpecReport == ReportInit /\ [][ReportNext]_vars

\* The goroutine running the call is scheduled, and the timer of
\* time.After fires after its second; the consumer need not do anything.
ReportFairness ==
    \A t \in Reporter : WF_vars(ReportNilCheck(t)) /\ WF_vars(ReportTimeout(t))

FairSpecReport == SpecReport /\ ReportFairness

(***************************************************************************)
(* Properties                                                              *)
(***************************************************************************)
\* Whether bit b (a power of two) is set in the word w.
TestBit(w, b) == (w \div b) % 2 = 1

\* The call of thread t went past the 0400 check: a genuine write-only file.
GenuineWriteOnly(t) == exitPath[t] \in {"relax", "open2", "ok"}

\* openWriteOnlyFile has returned to thread t's open path.
Returned(t) == pc[t] = "owo_ret"

NoSharedHold == \A u \in Thread : rHeld[u] = 0

InOpen(t) == pc[t] \notin {"idle", "done"}

\* C3 as stated: at every step between the start and the end of an open the
\* thread holds openWriteOnlyLock in shared or in exclusive mode.
C3_LockHeldThroughout ==
    \A t \in Thread : InOpen(t) => (rHeld[t] > 0 \/ wHolder = t)

\* C3 amended: during an open the thread holds the lock in shared mode, except
\* inside openWriteOnlyFile: from RUnlock() until Lock() returns and from
\* Unlock() until RLock() returns it holds the lock in neither mode, and in
\* between it holds it in exclusive mode.
C3_LockHeldExceptWhileSwitching ==
    \A t \in Thread :
        InOpen(t) =>
            IF pc[t] \in {"owo_lock", "owo_lockwait", "owo_rlock"}
            THEN rHeld[t] = 0 /\ wHolder # t
            ELSE IF pc[t] \in {"owo_relax", "owo_open2", "owo_revert", "owo_unlock"}
            THEN rHeld[t] = 0 /\ wHolder = t
            ELSE rHeld[t] = 1 /\ wHolder # t

\* C3 witness: a thread inside openWriteOnlyFile has released its shared hold
\* and waits in Lock() while another open still holds the lock in shared mode.
C3_Witness ==
    \E t, u \in Thread :
        /\ t # u
        /\ pc[t] = "owo_lockwait"
        /\ rHeld[t] = 0
        /\ wHolder = NoThread
        /\ rHeld[u] = 1

\* C4: when openWriteOnlyFile returns, on whichever exit path, the caller
\* holds the lock in shared mode exactly once and not in exclusive mode.
C4_SharedOnReturn ==
    \A t \in Thread :
        Returned(t) =>
            /\ exitPath[t] \in {"openat", "fstat", "eperm", "relax", "open2", "ok"}
            /\ rHeld[t] = 1
            /\ wHolder # t
            /\ wPending # t

\* C4 witness: two calls have returned, one with success and one after its
\* relaxing Fchmod failed, and both callers hold the lock in shared mode.
C4_Witness ==
    \E t, u \in Thread :
        /\ Returned(t) /\ exitPath[t] = "ok" /\ nLockOps[t] = 4
        /\ Returned(u) /\ exitPath[u] = "relax" /\ nLockOps[u] = 4
        /\ rHeld[t] = 1 /\ rHeld[u] = 1

\* C5: a call whose fstat'ed permission bits include owner-read makes no
\* Fchmod, no lock operation and no second Openat, keeps its shared hold, and
\* returns EPERM.
C5_ReadableFileRejected ==
    \A t \in Thread :
        TestBit(perms[t], OwnerRead) =>
            /\ nFchmod[t] = 0
            /\ nOpen2[t] = 0
            /\ nLockOps[t] = 0
            /\ rwFd[t] = "zero"
            /\ pc[t] \in {"owo_check", "owo_close", "owo_ret"} =>
                   rHeld[t] = 1 /\ wHolder # t
            /\ pc[t] # "owo_check" => err[t] = "EPERM" /\ exitPath[t] = "eperm"

\* C5 witness: a call on a file with permissions 0644 has returned EPERM.
C5_Witness ==
    \E t \in Thread :
        /\ Returned(t)
        /\ perms[t] = S_IFREG + 420
        /\ err[t] = "EPERM"
        /\ perm = 420

\* What a call that found no channel must not have done, and what a call that
\* timed out must not have delivered.
ReportOutcomeSound(t) ==
    /\ MitigatedCorruptions.isNil =>
           /\ rpc[t] # "select"
           /\ routcome[t] \in {"none", "nochan"}
           /\ sent = <<>>
    /\ routcome[t] = "timeout" =>
           \A k \in 1..Len(sent) : sent[k].by # t

\* C6: every call of reportMitigatedCorruption eventually returns, whatever
\* the consumer does; with no channel registered it returns without selecting
\* or sending, and a call that ends by the timeout has delivered nothing.
C6_ReportAlwaysReturns ==
    /\ \A t \in Reporter : (rpc[t] \in {"check", "select"}) ~> (rpc[t] = "done")
    /\ [](\A t \in Reporter : ReportOutcomeSound(t))

\* C6 witness: with a channel registered, no free buffer slot and a consumer
\* that has received nothing, a call has returned by the timeout.
C6_Witness ==
    \E t \in Reporter :
        /\ ~MitigatedCorruptions.isNil
        /\ Len(MitigatedCorruptions.buf) = MitigatedCorruptions.cap
        /\ cpc = "away"
        /\ received = <<>>
        /\ rpc[t] = "done"
        /\ routcome[t] = "timeout"

\* C7: isFiltered(path) returns true exactly when plaintext-names mode is on
\* and path is the reserved configuration filename.
C7_FilteredIffConfInPlaintextMode ==
    \A t \in Filterer :
        fpc[t] = "ret" =>
            (fret[t] <=> (PlaintextNames /\ fpath[t] = "gocryptfs.conf"))

\* C7 witness: in plaintext-names mode one call has returned true for the
\* configuration filename and another false for the directory-IV filename.
C7_Witness ==
    \E t, u \in Filterer :
        /\ PlaintextNames
        /\ fpc[t] = "ret" /\ fpath[t] = "gocryptfs.conf" /\ fret[t]
        /\ fpc[u] = "ret" /\ fpath[u] = "gocryptfs.diriv" /\ ~fret[u]

\* C8: the flag reads 0 whenever isFiltered has stored it since the monitor
\* last set it; every isFiltered call stores 0 before it decides; and no step
\* of an isFiltered call writes a non-zero value to the flag.
C8_IdleFlagResetByFilter ==
    /\ [](storedSinceSet => IsIdle = 0)
    /\ [][\A t \in Filterer :
            (fpc[t] = "store" /\ fpc'[t] = "decide") => IsIdle' = 0]_vars
    /\ [][(\E t \in Filterer : fpc'[t] # fpc[t]) => IsIdle' \in {0, IsIdle}]_vars

\* C8 witness: after the monitor has set the flag, a call that returned true
\* and a call that returned false have reset it to 0.
C8_Witness ==
    \E t, u \in Filterer :
        /\ monitorRan
        /\ storedSinceSet
        /\ IsIdle = 0
        /\ fpc[t] = "ret" /\ fret[t]
        /\ fpc[u] = "ret" /\ ~fret[u]

\* C9: the access mode of the result is read-write for a write-only request
\* and the requested one for a read-only or read-write request.
C9_AccessModeMangled ==
    mpc = "done" =>
        /\ flags % 4 = 1 => newFlags % 4 = 2
        /\ flags % 4 \in {0, 2} => newFlags % 4 = flags % 4
        /\ newFlags % 4 # 1

\* C9 witness: a write-only, append, direct-I/O request was mangled to a
\* read-write one.
C9_Witness ==
    /\ mpc = "done"
    /\ flags = 1 + 1024 + 16384
    /\ newFlags % 4 = 2

\* C10: the result has O_NOFOLLOW set and O_APPEND, O_DIRECT and O_CREAT
\* clear, whatever the input.
C10_NoFollowSetOthersStripped ==
    mpc = "done" =>
        /\ TestBit(newFlags, 131072)
        /\ ~TestBit(newFlags, 1024)
        /\ ~TestBit(newFlags, 16384)
        /\ ~TestBit(newFlags, 64)

\* C10 witness: a request with O_CREAT, O_APPEND and O_DIRECT and without
\* O_NOFOLLOW was mangled.
C10_Witness ==
    /\ mpc = "done"
    /\ flags = 1 + 64 + 512 + 1024 + 16384
    /\ newFlags = 2 + 512 + 131072

\* C11: decryptSymlinkTarget of the empty string returns the empty string
\* and no error, and calls neither the base64 decoder nor DecryptBlock.
C11_EmptyTargetNoCipher ==
    (cData64 = <<>> /\ dpc = "ret") =>
        /\ dret = <<>>
        /\ derr = "nil"
        /\ nB64 = 0
        /\ nCipher = 0

\* C11 witness: the call with the empty string has returned.
C11_Witness ==
    /\ cData64 = <<>>
    /\ dpc = "ret"
    /\ dret = <<>>
    /\ derr = "nil"

\* C15: when the base64 decoding fails DecryptBlock is not called; when the
\* decoding or the authentication fails the call returns the error with the
\* empty string; a non-empty plaintext comes only with a nil error.
C15_FailsClosed ==
    /\ B64DecodeString(cData64).err # "nil" => nCipher = 0
    /\ dpc = "ret" =>
           /\ derr # "nil" => dret = <<>>
           /\ dret # <<>> => derr = "nil"
           /\ (cData64 # <<>> /\ B64DecodeString(cData64).err # "nil") =>
                  derr = "base64"
           /\ (cData64 # <<>> /\ B64DecodeString(cData64).err = "nil"
               /\ DecryptBlock(B64DecodeString(cData64).data).err # "nil") =>
                  derr = "auth"

\* C15 witness: a target that decodes but does not authenticate has returned
\* the error and the empty string.
C15_Witness ==
    /\ dpc = "ret"
    /\ cData64 = <<0, 1, 0, 0>>
    /\ nCipher = 1
    /\ derr = "auth"
    /\ dret = <<>>

\* A target that decodes and authenticates returns its plaintext.
C15_PlaintextReturned ==
    /\ dpc = "ret"
    /\ cData64 = <<0, 1, 1, 2>>
    /\ derr = "nil"
    /\ dret = <<6>>

\* The value of bit b in the word w.
BitValue(w, b) == IF TestBit(w, b) THEN b ELSE 0

\* The word w with the access mode, O_CREAT, O_APPEND, O_DIRECT and
\* O_NOFOLLOW bits cleared.
OtherBits(w) ==
    w - BitValue(w, 1) - BitValue(w, 2) - BitValue(w, 64) - BitValue(w, 1024)
      - BitValue(w, 16384) - BitValue(w, 131072)

\* C18: mangling a mangled flag word returns it unchanged, and mangling
\* leaves every bit outside the access mode, O_APPEND, O_DIRECT, O_CREAT and
\* O_NOFOLLOW as it was.
C18_IdempotentOtherBitsKept ==
    /\ mpc = "again" => mangledTwice = newFlags
    /\ mpc \in {"done", "again"} => OtherBits(newFlags) = OtherBits(flags)

\* C18 witness: a write-only request with O_TRUNC, O_NONBLOCK and bit 30
\* was mangled twice.
C18_Witness ==
    /\ mpc = "again"
    /\ flags = 1 + 64 + 512 + 1024 + 2048 + 1073741824
    /\ newFlags = 2 + 512 + 2048 + 131072 + 1073741824
    /\ mangledTwice = newFlags

\* The entries of sent that reporter t made.
SentBy(t) == {k \in 1..Len(sent) : sent[k].by = t}

\* C16: each call puts its item on the channel at most once, a call that
\* ended by the timeout put nothing on it, every item on the channel is the
\* item of the call that sent it, and what the consumer received together
\* with what is buffered is exactly what the calls sent, in order.
C16_SentAtMostOnce ==
    /\ \A t \in Reporter :
           /\ Cardinality(SentBy(t)) <= 1
           /\ routcome[t] = "sent" <=> SentBy(t) # {}
           /\ routcome[t] = "timeout" => SentBy(t) = {}
    /\ \A k \in 1..Len(sent) : sent[k].item = ritem[sent[k].by]
    /\ received \o MitigatedCorruptions.buf = [k \in 1..Len(sent) |-> sent[k].item]

\* C16 witness: two calls passed the same item; one sent it and the consumer
\* received it, the other ended by the timeout.
C16_Witness ==
    \E t, u \in Reporter :
        /\ t # u
        /\ ritem[t] = ritem[u]
        /\ routcome[t] = "sent"
        /\ routcome[u] = "timeout"
        /\ received = <<ritem[t]>>
        /\ Len(sent) = 1

\* openWriteOnlyFile is running its body or its deferred calls in thread t.
InOwo(t) ==
    pc[t] \in {"owo_openat", "owo_fstat", "owo_check", "owo_runlock", "owo_lock",
               "owo_lockwait", "owo_relax", "owo_open2", "owo_revert",
               "owo_unlock", "owo_rlock", "owo_close", "owo_ret"}

\* C14: a call whose relaxing Fchmod failed returns that error, has made that
\* one Fchmod only and no second Openat, and has gone through all four lock
\* operations so that it returns with the shared hold; a call whose first
\* Openat or whose Fstat failed returns that error, having made no Fchmod and
\* no lock operation.
C14_FailuresPropagated ==
    \A t \in Thread :
        /\ exitPath[t] = "relax" =>
               /\ err[t] \in Errnos /\ err[t] = sysErr[t]
               /\ nFchmod[t] = 1
               /\ nOpen2[t] = 0
               /\ rwFd[t] = "zero" /\ rwFdNum[t] = 0
               /\ Returned(t) =>
                      nLockOps[t] = 4 /\ rHeld[t] = 1 /\ wHolder # t
        /\ exitPath[t] \in {"openat", "fstat"} =>
               /\ err[t] \in Errnos /\ err[t] = sysErr[t]
               /\ nFchmod[t] = 0
               /\ nLockOps[t] = 0
               /\ nOpen2[t] = 0
               /\ rwFd[t] = "zero" /\ rwFdNum[t] = 0
               /\ InOwo(t) => rHeld[t] = 1 /\ wHolder # t

\* C14 witness: one call has returned after a failed relaxing Fchmod and
\* another after a failed first Openat or Fstat.
C14_Witness ==
    \E t, u \in Thread :
        /\ Returned(t) /\ exitPath[t] = "relax" /\ nLockOps[t] = 4
        /\ Returned(u) /\ exitPath[u] \in {"openat", "fstat"}
        /\ err[t] \in Errnos /\ err[u] \in Errnos

\* The file the calls open started without the owner-read bit.
OrigWriteOnly == ~TestBit(origPerm, OwnerRead)

\* Every thread has finished its open.
AllDone == \A t \in Thread : pc[t] = "done"

C17_WoFdClosedOnceLast ==
    \A t \in Thread :
        /\ woFd[t] = "none" => nClose[t] = 0
        /\ woFd[t] # "none" =>
               /\ woFdNum[t] >= FirstFd
               /\ rwFdNum[t] # woFdNum[t]
               /\ pc[t] \in {"owo_fstat", "owo_check", "owo_runlock",
                              "owo_lock", "owo_lockwait", "owo_relax",
                              "owo_open2", "owo_revert", "owo_unlock",
                              "owo_rlock", "owo_close"} =>
                      /\ nClose[t] = 0
                      /\ woFd[t] = "open"
                      /\ woFdNum[t] \in openFds
               /\ pc[t] = "owo_close" =>
                      /\ exitPath[t] \in {"open2", "ok"} => nFchmod[t] = 2
                      /\ GenuineWriteOnly(t) =>
                             nLockOps[t] = 4 /\ rHeld[t] = 1 /\ wHolder # t
               /\ pc[t] \in {"owo_ret", "open_end", "done"} =>
                      /\ nClose[t] = 1
                      /\ woFd[t] = "closed"
        /\ rwFd[t] = "rw" => rwFdNum[t] \in openFds

\* C17 witness: a call has returned the descriptor of its second Openat after
\* closing woFd once, and another call has returned after a failed Fstat with
\* its woFd closed once.
C17_Witness ==
    \E t, u \in Thread :
        /\ Returned(t) /\ exitPath[t] = "ok" /\ nClose[t] = 1
        /\ rwFdNum[t] \in openFds /\ woFdNum[t] \notin openFds
        /\ Returned(u) /\ exitPath[u] = "fstat" /\ nClose[u] = 1

\* Thread t is inside a lock operation that the lock does not admit.
Blocked(t) ==
    /\ pc[t] \in {"idle", "owo_lock", "owo_lockwait", "owo_rlock"}
    /\ ~ENABLED ThreadStep(t)

\* Some thread has not finished, and every such thread is blocked.
AllBlocked ==
    /\ ~AllDone
    /\ \A t \in Thread : pc[t] # "done" => Blocked(t)

\* C12: in no reachable state is every unfinished thread blocked on
\* openWriteOnlyLock, a thread outside a lock operation can always take its
\* next step, and under fair scheduling every openWriteOnlyFile call returns
\* and every open finishes.
C12_NoDeadlockEveryCallReturns ==
    /\ [](~AllBlocked)
    /\ [](\A t \in Thread : (pc[t] # "done" /\ ~Blocked(t)) => ENABLED ThreadStep(t))
    /\ \A t \in Thread : (pc[t] = "owo_openat") ~> Returned(t)
    /\ <>AllDone

\* C12 witness: one thread waits for the exclusive hold while the other still
\* holds the lock in shared mode inside its own open.
C12_Witness ==
    \E t, u \in Thread :
        /\ t # u
        /\ pc[t] = "owo_lockwait" /\ Blocked(t)
        /\ rHeld[u] = 1 /\ InOwo(u) /\ ~Blocked(u)

====
